---- MODULE Spec2Model ----
(***************************************************************************)
(* Model of lib/max6675.py: the bit-banged MAX6675 thermocouple driver.    *)
(*                                                                         *)
(* Temperatures are floats in the source; here they are integers counting  *)
(* hundredths of a unit (36.0 is 3600, 273.15 is 27315), so the affine     *)
(* conversions are exact.  The GPIO library is external: its pins are a    *)
(* mode and a last written level per pin, and every call made on it is     *)
(* appended to `trace`, the list of pin operations of the call in progress.*)
(***************************************************************************)
EXTENDS Integers, Sequences, FiniteSets, TLC

VARIABLES
    obj,        \* the MAX6675 instances: id -> record of the attributes
    gpio,       \* the GPIO library's pins: pin -> [mode, level]
    pc,         \* position of the (single) thread of control
    self,       \* the instance the method in progress was called on
    call,       \* the public method in progress ("" between calls)
    i,          \* read(): the loop index
    bytesin,    \* read(): the accumulator
    line,       \* the levels the data line presents at the 16 samples
    trace,      \* pin operations made by the call in progress / last call
    old,        \* data and noConnection of `self` when the call started
    result,     \* what the last finished call gave its caller
    input       \* the data_16 the caller passes (None: the default)

vars == <<obj, gpio, pc, self, call, i, bytesin, line, trace, old, result, input>>

---------------------------------------------------------------------------
(* Values *)

None == -1

GPIO_LOW == 0
GPIO_HIGH == 1
GPIO_OUT == 0
GPIO_IN == 1

FrameBits == 16
FaultMask == 4
TcShift == 3

cs_pins == <<4, 17, 18, 24>>
clock_pin == 23
data_pin == 22
\* power_pin arguments: the default, a pin, and a number that is no pin
PowerPinArgs == {0, 27, -3}
UnitArgs == {"c", "k", "f", "x"}

Pins == {cs_pins[k] : k \in 1..Len(cs_pins)} \cup {clock_pin, data_pin} \cup {p \in PowerPinArgs : p > 0}

Instances == {1}

---------------------------------------------------------------------------
(* Integer arithmetic of the source: <<, >>, &, | on non-negative ints *)

RECURSIVE pow2(_)
pow2(n) == IF n = 0 THEN 1 ELSE 2 * pow2(n - 1)

shl(a, n) == a * pow2(n)

RECURSIVE shr(_, _)
shr(a, n) == IF n = 0 THEN a ELSE shr(a \div 2, n - 1)

RECURSIVE band(_, _)
band(a, b) ==
    IF a = 0 \/ b = 0 THEN 0
    ELSE (IF a % 2 = 1 /\ b % 2 = 1 THEN 1 ELSE 0) + 2 * band(a \div 2, b \div 2)

RECURSIVE bor(_, _)
bor(a, b) ==
    IF a = 0 THEN b
    ELSE IF b = 0 THEN a
    ELSE (IF a % 2 = 1 \/ b % 2 = 1 THEN 1 ELSE 0) + 2 * bor(a \div 2, b \div 2)

---------------------------------------------------------------------------
(* The methods that compute without touching a pin *)

\* (mutant) the mask of bit 3, as the comment's "D3" reads
anyErrors_Bit3(data_16) == band(data_16, 8) # 0

\* checkErrors: anyErrors = (data_16 & 0x4) != 0
anyErrors(data_16) == band(data_16, FaultMask) # 0

\* (mutant) the flag is set on a fault and never cleared
checkErrors_Latched(o, data_16) ==
    [o EXCEPT !.noConnection = o.noConnection \/ anyErrors(data_16)]

\* (mutant) a fault is also reported as a short to ground
checkErrors_ShortToGround(o, data_16) ==
    [o EXCEPT !.noConnection = anyErrors(data_16),
              !.shortToGround = anyErrors(data_16)]

\* checkErrors, lines 72-77: the instance it leaves
checkErrors(o, data_16) == [o EXCEPT !.noConnection = anyErrors(data_16)]

\* (mutant) half a degree to the count
convert_tc_data_HalfDegree(tc_data) == tc_data * 50

\* convert_tc_data: tc_data * 0.25, in hundredths of a degree
convert_tc_data(tc_data) == tc_data * 25

\* (mutant) two status bits are shifted out instead of three
data_to_tc_temperature_Shift2(data_16) == convert_tc_data(shr(data_16, TcShift - 1))

\* data_to_tc_temperature: convert_tc_data(data_16 >> 3)
data_to_tc_temperature(data_16) == convert_tc_data(shr(data_16, TcShift))

to_c(celsius) == celsius

\* celsius + 273.15
to_k(celsius) == celsius + 27315

\* (mutant) the factor upside down
to_f_FiveNinths(celsius) == (celsius * 5) \div 9 + 3200

\* celsius * 9.0/5.0 + 32
to_f(celsius) == (celsius * 9) \div 5 + 3200

\* (mutant) the bit is set before the shift instead of after it
shiftIn_OrThenShift(acc, level) ==
    shl(IF level # 0 THEN bor(acc, 1) ELSE acc, 1)

\* read, one turn of the loop: bytesin << 1, then | 1 when the sample is truthy
shiftIn(acc, level) ==
    IF level # 0 THEN bor(shl(acc, 1), 1) ELSE shl(acc, 1)

\* getattr(self, "to_" + self.units): the methods the class has
HasConverter(u) == u \in {"c", "k", "f"}

Convert(u, celsius) ==
    CASE u = "c" -> to_c(celsius)
      [] u = "k" -> to_k(celsius)
      [] u = "f" -> to_f(celsius)

---------------------------------------------------------------------------
(* What a call gives its caller *)

NoResult == [kind |-> "none", val |-> None, exc |-> ""]
Returned(v) == [kind |-> "return", val |-> v, exc |-> ""]
Raised(e) == [kind |-> "raise", val |-> None, exc |-> e]

---------------------------------------------------------------------------
(* The GPIO library *)

GPIO_setup(g, pin, mode) == [g EXCEPT ![pin].mode = mode]
GPIO_output(g, pin, level) == [g EXCEPT ![pin].level = level]

PinOp(op, pin, val) == [op |-> op, pin |-> pin, val |-> val]

\* The levels a 16-bit word presents on the data line, first sample first
\* (the device shifts its word out most significant bit first).
Pow2Table == [n \in 0..FrameBits |-> pow2(n)]

LineOf(f) == [k \in 1..FrameBits |-> (f \div Pow2Table[FrameBits - k]) % 2]

\* The frames the data line presents in the pin-by-pin model: a line stuck
\* low or high, each status bit alone, the sign position, a reading with and
\* without the fault bit, and the readings of the counts 1..MaxCount.
MaxCount == 2

LineFrames ==
    {0, 1, 2, 4, 1152, 1156, 32768, 65531, 65535} \cup {8 * n : n \in 1..MaxCount}

---------------------------------------------------------------------------
(* State before any instance is constructed *)

Unborn ==
    [state |-> "uninitialized", cs_pin |-> None, clock_pin |-> None,
     data_pin |-> None, units |-> "", power_pin |-> None, data |-> None,
     noConnection |-> FALSE, shortToGround |-> FALSE, shortToVCC |-> FALSE,
     unknownError |-> FALSE]

Snapshot(o) == [data |-> o.data, noConnection |-> o.noConnection]

Init ==
    /\ obj = [r \in Instances |-> Unborn]
    /\ gpio = [p \in Pins |-> [mode |-> None, level |-> None]]
    /\ pc = "idle"
    /\ self = None
    /\ call = ""
    /\ i = 0
    /\ bytesin = 0
    /\ line = <<>>
    /\ trace = <<>>
    /\ old = Snapshot(Unborn)
    /\ result = NoResult
    /\ input = None

\* A public method of instance r is entered; `call` names it until the next
\* call is made, and pc is "idle" again once it has finished
Enter(r, method) ==
    /\ pc = "idle"
    /\ self' = r
    /\ call' = method
    /\ trace' = <<>>
    /\ old' = Snapshot(obj[r])
    /\ result' = NoResult
    /\ input' = None

\* The method in progress gives res to its caller
Leave(res) ==
    /\ pc' = "idle"
    /\ result' = res

\* A method that touches no pin, from its call to its result
Whole(r, method, res) ==
    /\ pc = "idle"
    /\ pc' = "idle"
    /\ self' = r
    /\ call' = method
    /\ old' = Snapshot(obj[r])
    /\ result' = res

---------------------------------------------------------------------------
(* __init__ *)

\* lines 21-31: the attributes, GPIO.setmode
Construct(r, u, pp) ==
    /\ obj[r].state = "uninitialized"
    /\ Enter(r, "__init__")
    /\ obj' = [obj EXCEPT ![r] =
                 [state |-> "init", cs_pin |-> cs_pins[r], clock_pin |-> clock_pin,
                  data_pin |-> data_pin, units |-> u, power_pin |-> pp,
                  data |-> None, noConnection |-> FALSE, shortToGround |-> FALSE,
                  shortToVCC |-> FALSE, unknownError |-> FALSE]]
    /\ pc' = "init_power"
    /\ UNCHANGED <<gpio, i, bytesin, line>>

\* line 34: if power_pin > 0, GPIO.setup(power_pin, OUT)
InitPowerSetup ==
    /\ pc = "init_power"
    /\ obj[self].power_pin > 0
    /\ gpio' = GPIO_setup(gpio, obj[self].power_pin, GPIO_OUT)
    /\ trace' = Append(trace, PinOp("setup", obj[self].power_pin, GPIO_OUT))
    /\ pc' = "init_power_high"
    /\ UNCHANGED <<obj, self, call, i, bytesin, line, old, result, input>>

\* (mutant) the power pin is driven low
InitPowerHigh_DrivesLow ==
    /\ pc = "init_power_high"
    /\ gpio' = GPIO_output(gpio, obj[self].power_pin, GPIO_LOW)
    /\ trace' = Append(trace, PinOp("output", obj[self].power_pin, GPIO_LOW))
    /\ pc' = "init_cs"
    /\ UNCHANGED <<obj, self, call, i, bytesin, line, old, result, input>>

\* line 35: GPIO.output(power_pin, HIGH)
InitPowerHigh ==
    /\ pc = "init_power_high"
    /\ gpio' = GPIO_output(gpio, obj[self].power_pin, GPIO_HIGH)
    /\ trace' = Append(trace, PinOp("output", obj[self].power_pin, GPIO_HIGH))
    /\ pc' = "init_cs"
    /\ UNCHANGED <<obj, self, call, i, bytesin, line, old, result, input>>

\* line 37: GPIO.setup(cs_pin, OUT), reached past the if of line 33
InitSetupCs ==
    /\ \/ pc = "init_cs"
       \/ pc = "init_power" /\ ~(obj[self].power_pin > 0)
    /\ gpio' = GPIO_setup(gpio, obj[self].cs_pin, GPIO_OUT)
    /\ trace' = Append(trace, PinOp("setup", obj[self].cs_pin, GPIO_OUT))
    /\ pc' = "init_clock"
    /\ UNCHANGED <<obj, self, call, i, bytesin, line, old, result, input>>

\* line 38: GPIO.setup(clock_pin, OUT)
InitSetupClock ==
    /\ pc = "init_clock"
    /\ gpio' = GPIO_setup(gpio, obj[self].clock_pin, GPIO_OUT)
    /\ trace' = Append(trace, PinOp("setup", obj[self].clock_pin, GPIO_OUT))
    /\ pc' = "init_data"
    /\ UNCHANGED <<obj, self, call, i, bytesin, line, old, result, input>>

\* line 39: GPIO.setup(data_pin, IN)
InitSetupData ==
    /\ pc = "init_data"
    /\ gpio' = GPIO_setup(gpio, obj[self].data_pin, GPIO_IN)
    /\ trace' = Append(trace, PinOp("setup", obj[self].data_pin, GPIO_IN))
    /\ pc' = "init_cs_high"
    /\ UNCHANGED <<obj, self, call, i, bytesin, line, old, result, input>>

\* (mutant) the constructor leaves the chip selected
InitCsHigh_DrivesLow ==
    /\ pc = "init_cs_high"
    /\ gpio' = GPIO_output(gpio, obj[self].cs_pin, GPIO_LOW)
    /\ trace' = Append(trace, PinOp("output", obj[self].cs_pin, GPIO_LOW))
    /\ obj' = [obj EXCEPT ![self].state = "idle"]
    /\ Leave(Returned(None))
    /\ UNCHANGED <<self, call, i, bytesin, line, old, input>>

\* line 43: GPIO.output(cs_pin, HIGH); the constructor returns
InitCsHigh ==
    /\ pc = "init_cs_high"
    /\ gpio' = GPIO_output(gpio, obj[self].cs_pin, GPIO_HIGH)
    /\ trace' = Append(trace, PinOp("output", obj[self].cs_pin, GPIO_HIGH))
    /\ obj' = [obj EXCEPT ![self].state = "idle"]
    /\ Leave(Returned(None))
    /\ UNCHANGED <<self, call, i, bytesin, line, old, input>>

---------------------------------------------------------------------------
(* read *)

\* read() is called
ReadCall(r) ==
    /\ obj[r].state = "idle"
    /\ Enter(r, "read")
    /\ pc' = "read_select"
    /\ UNCHANGED <<obj, gpio, i, bytesin, line>>

\* lines 53-55: bytesin = 0; GPIO.output(cs_pin, LOW).  The data line will
\* present the levels of one of LineFrames at the samples that follow.
ReadSelect ==
    /\ pc = "read_select"
    /\ bytesin' = 0
    /\ gpio' = GPIO_output(gpio, obj[self].cs_pin, GPIO_LOW)
    /\ trace' = Append(trace, PinOp("output", obj[self].cs_pin, GPIO_LOW))
    /\ \E f \in LineFrames : line' = LineOf(f)
    /\ i' = 0
    /\ pc' = "read_clock_low"
    /\ UNCHANGED <<obj, self, call, old, result, input>>

\* (mutant) the clock is driven high before the sample
ReadClockLow_DrivesHigh ==
    /\ pc = "read_clock_low"
    /\ gpio' = GPIO_output(gpio, obj[self].clock_pin, GPIO_HIGH)
    /\ trace' = Append(trace, PinOp("output", obj[self].clock_pin, GPIO_HIGH))
    /\ pc' = "read_sample"
    /\ UNCHANGED <<obj, self, call, i, bytesin, line, old, result, input>>

\* line 58: GPIO.output(clock_pin, LOW)
ReadClockLow ==
    /\ pc = "read_clock_low"
    /\ gpio' = GPIO_output(gpio, obj[self].clock_pin, GPIO_LOW)
    /\ trace' = Append(trace, PinOp("output", obj[self].clock_pin, GPIO_LOW))
    /\ pc' = "read_sample"
    /\ UNCHANGED <<obj, self, call, i, bytesin, line, old, result, input>>

\* lines 59-61: bytesin = bytesin << 1; if GPIO.input(data_pin): bytesin |= 1
ReadSample ==
    /\ pc = "read_sample"
    /\ bytesin' = shiftIn(bytesin, line[i + 1])
    /\ trace' = Append(trace, PinOp("input", obj[self].data_pin, line[i + 1]))
    /\ pc' = "read_clock_high"
    /\ UNCHANGED <<obj, gpio, self, call, i, line, old, result, input>>

\* (mutant) the loop makes 15 turns
ReadClockHigh_OneTurnShort ==
    /\ pc = "read_clock_high"
    /\ gpio' = GPIO_output(gpio, obj[self].clock_pin, GPIO_HIGH)
    /\ trace' = Append(trace, PinOp("output", obj[self].clock_pin, GPIO_HIGH))
    /\ i' = i + 1
    /\ pc' = IF i + 1 < FrameBits - 1 THEN "read_clock_low" ELSE "read_unselect"
    /\ UNCHANGED <<obj, self, call, bytesin, line, old, result, input>>

\* (mutant) the last turn leaves the clock at low
ReadClockHigh_LastTurnLow ==
    /\ pc = "read_clock_high"
    /\ gpio' = GPIO_output(gpio, obj[self].clock_pin,
                           IF i + 1 < FrameBits THEN GPIO_HIGH ELSE GPIO_LOW)
    /\ trace' = Append(trace, PinOp("output", obj[self].clock_pin,
                                    IF i + 1 < FrameBits THEN GPIO_HIGH ELSE GPIO_LOW))
    /\ i' = i + 1
    /\ pc' = IF i + 1 < FrameBits THEN "read_clock_low" ELSE "read_unselect"
    /\ UNCHANGED <<obj, self, call, bytesin, line, old, result, input>>

\* line 62: GPIO.output(clock_pin, HIGH); line 57: the next of the 16 turns
ReadClockHigh ==
    /\ pc = "read_clock_high"
    /\ gpio' = GPIO_output(gpio, obj[self].clock_pin, GPIO_HIGH)
    /\ trace' = Append(trace, PinOp("output", obj[self].clock_pin, GPIO_HIGH))
    /\ i' = i + 1
    /\ pc' = IF i + 1 < FrameBits THEN "read_clock_low" ELSE "read_unselect"
    /\ UNCHANGED <<obj, self, call, bytesin, line, old, result, input>>

\* (mutant) read leaves the chip selected
ReadUnselect_LeavesSelected ==
    /\ pc = "read_unselect"
    /\ gpio' = GPIO_output(gpio, obj[self].cs_pin, GPIO_LOW)
    /\ trace' = Append(trace, PinOp("output", obj[self].cs_pin, GPIO_LOW))
    /\ line' = <<>>
    /\ pc' = "read_save"
    /\ UNCHANGED <<obj, self, call, i, bytesin, old, result, input>>

\* line 64: GPIO.output(cs_pin, HIGH)
ReadUnselect ==
    /\ pc = "read_unselect"
    /\ gpio' = GPIO_output(gpio, obj[self].cs_pin, GPIO_HIGH)
    /\ trace' = Append(trace, PinOp("output", obj[self].cs_pin, GPIO_HIGH))
    /\ line' = <<>>
    /\ pc' = "read_save"
    /\ UNCHANGED <<obj, self, call, i, bytesin, old, result, input>>

\* (mutant) read also recomputes the flag from the frame it stores
ReadSave_ChecksErrors ==
    /\ pc = "read_save"
    /\ obj' = [obj EXCEPT ![self] = checkErrors([obj[self] EXCEPT !.data = bytesin],
                                                bytesin)]
    /\ i' = 0
    /\ bytesin' = 0
    /\ IF call = "get"
       THEN pc' = "get_check" /\ UNCHANGED result
       ELSE Leave(Returned(None))
    /\ UNCHANGED <<gpio, self, call, line, trace, old, input>>

\* line 66: self.data = bytesin; read returns, to its caller or into get
ReadSave ==
    /\ pc = "read_save"
    /\ obj' = [obj EXCEPT ![self].data = bytesin]
    /\ i' = 0
    /\ bytesin' = 0
    /\ IF call = "get"
       THEN pc' = "get_check" /\ UNCHANGED result
       ELSE Leave(Returned(None))
    /\ UNCHANGED <<gpio, self, call, line, trace, old, input>>

---------------------------------------------------------------------------
(* get *)

\* (mutant) get looks the converter up before it reads
GetCall_LooksUpFirst(r) ==
    /\ obj[r].state = "idle"
    /\ pc = "idle"
    /\ self' = r
    /\ call' = "get"
    /\ trace' = <<>>
    /\ old' = Snapshot(obj[r])
    /\ input' = None
    /\ IF HasConverter(obj[r].units)
       THEN pc' = "read_select" /\ result' = NoResult
       ELSE pc' = "idle" /\ result' = Raised("AttributeError")
    /\ UNCHANGED <<obj, gpio, i, bytesin, line>>

\* get() is called; line 47: self.read()
GetCall(r) ==
    /\ obj[r].state = "idle"
    /\ Enter(r, "get")
    /\ pc' = "read_select"
    /\ UNCHANGED <<obj, gpio, i, bytesin, line>>

\* (mutant) get does not call checkErrors
GetCheckErrors_Skipped ==
    /\ pc = "get_check"
    /\ pc' = "get_return"
    /\ UNCHANGED <<obj, gpio, self, call, i, bytesin, line, trace, old, result, input>>

\* line 48: self.checkErrors()
GetCheckErrors ==
    /\ pc = "get_check"
    /\ obj' = [obj EXCEPT ![self] = checkErrors(obj[self], obj[self].data)]
    /\ pc' = "get_return"
    /\ UNCHANGED <<gpio, self, call, i, bytesin, line, trace, old, result, input>>

\* line 49: return getattr(self, "to_" + self.units)(self.data_to_tc_temperature())
GetReturn ==
    /\ pc = "get_return"
    /\ IF HasConverter(obj[self].units)
       THEN Leave(Returned(Convert(obj[self].units,
                                   data_to_tc_temperature(obj[self].data))))
       ELSE Leave(Raised("AttributeError"))
    /\ UNCHANGED <<obj, gpio, self, call, i, bytesin, line, trace, old, input>>

---------------------------------------------------------------------------
(* checkErrors and data_to_tc_temperature, called by the user *)

\* data_16 defaults to self.data (lines 70-71, 81-82)
Arg(r, data_16) == IF data_16 = None THEN obj[r].data ELSE data_16

\* lines 68-77; None & 0x4 is a TypeError
CheckErrors(r, data_16) ==
    /\ obj[r].state = "idle"
    /\ IF Arg(r, data_16) = None
       THEN /\ Whole(r, "checkErrors", Raised("TypeError"))
            /\ UNCHANGED obj
       ELSE /\ Whole(r, "checkErrors", Returned(None))
            /\ obj' = [obj EXCEPT ![r] = checkErrors(obj[r], Arg(r, data_16))]
    /\ trace' = <<>>
    /\ input' = data_16
    /\ UNCHANGED <<gpio, i, bytesin, line>>

\* lines 79-84; None >> 3 is a TypeError
DataToTcTemperature(r, data_16) ==
    /\ obj[r].state = "idle"
    /\ IF Arg(r, data_16) = None
       THEN Whole(r, "data_to_tc_temperature", Raised("TypeError"))
       ELSE Whole(r, "data_to_tc_temperature",
                  Returned(data_to_tc_temperature(Arg(r, data_16))))
    /\ trace' = <<>>
    /\ input' = data_16
    /\ UNCHANGED <<obj, gpio, i, bytesin, line>>

---------------------------------------------------------------------------
(* cleanup *)

CleanupCall(r) ==
    /\ obj[r].state = "idle"
    /\ Enter(r, "cleanup")
    /\ pc' = "cleanup_cs"
    /\ UNCHANGED <<obj, gpio, i, bytesin, line>>

\* line 106: GPIO.setup(cs_pin, IN)
CleanupCs ==
    /\ pc = "cleanup_cs"
    /\ gpio' = GPIO_setup(gpio, obj[self].cs_pin, GPIO_IN)
    /\ trace' = Append(trace, PinOp("setup", obj[self].cs_pin, GPIO_IN))
    /\ pc' = "cleanup_clock"
    /\ UNCHANGED <<obj, self, call, i, bytesin, line, old, result, input>>

\* (mutant) cleanup releases data-in instead of the clock
CleanupClock_ReleasesData ==
    /\ pc = "cleanup_clock"
    /\ gpio' = GPIO_setup(gpio, obj[self].data_pin, GPIO_IN)
    /\ trace' = Append(trace, PinOp("setup", obj[self].data_pin, GPIO_IN))
    /\ obj' = [obj EXCEPT ![self].state = "released"]
    /\ Leave(Returned(None))
    /\ UNCHANGED <<self, call, i, bytesin, line, old, input>>

\* line 107: GPIO.setup(clock_pin, IN); cleanup returns
CleanupClock ==
    /\ pc = "cleanup_clock"
    /\ gpio' = GPIO_setup(gpio, obj[self].clock_pin, GPIO_IN)
    /\ trace' = Append(trace, PinOp("setup", obj[self].clock_pin, GPIO_IN))
    /\ obj' = [obj EXCEPT ![self].state = "released"]
    /\ Leave(Returned(None))
    /\ UNCHANGED <<self, call, i, bytesin, line, old, input>>

---------------------------------------------------------------------------
(* The driver and its caller, pin operation by pin operation *)

ArgFrames == {None, 0, 4, 1152, 65535}

Next ==
    \/ \E r \in Instances, u \in UnitArgs, pp \in PowerPinArgs : Construct(r, u, pp)
    \/ InitPowerSetup
    \/ InitPowerHigh
    \/ InitSetupCs
    \/ InitSetupClock
    \/ InitSetupData
    \/ InitCsHigh
    \/ \E r \in Instances : ReadCall(r)
    \/ ReadSelect
    \/ ReadClockLow
    \/ ReadSample
    \/ ReadClockHigh
    \/ ReadUnselect
    \/ ReadSave
    \/ \E r \in Instances : GetCall(r)
    \/ GetCheckErrors
    \/ GetReturn
    \/ \E r \in Instances, a \in ArgFrames : CheckErrors(r, a)
    \/ \E r \in Instances, a \in ArgFrames : DataToTcTemperature(r, a)
    \/ \E r \in Instances : CleanupCall(r)
    \/ CleanupCs
    \/ CleanupClock

Spec == Init /\ [][Next]_vars

\* Every step of a method but its call: the code is synchronous and waits
\* for nothing, so a method that has been entered runs on.
Step ==
    \/ InitPowerSetup \/ InitPowerHigh \/ InitSetupCs \/ InitSetupClock
    \/ InitSetupData \/ InitCsHigh
    \/ ReadSelect \/ ReadClockLow \/ ReadSample \/ ReadClockHigh
    \/ ReadUnselect \/ ReadSave
    \/ GetCheckErrors \/ GetReturn
    \/ CleanupCs \/ CleanupClock

FairSpec == Spec /\ WF_vars(Step)

---------------------------------------------------------------------------
(* The methods applied whole to one frame out of all the 16-bit frames *)

AllFrames == 0..(Pow2Table[FrameBits] - 1)

\* read, lines 57-62: the loop over the 16 samples
RECURSIVE ReadLoop(_, _, _)
ReadLoop(acc, levels, k) ==
    IF k > FrameBits THEN acc
    ELSE ReadLoop(shiftIn(acc, levels[k]), levels, k + 1)

\* read, lines 55-64: the pin operations it makes, in order
ReadTrace(r, levels) ==
    <<PinOp("output", obj[r].cs_pin, GPIO_LOW)>>
    \o [n \in 1..(3 * FrameBits) |->
          CASE n % 3 = 1 -> PinOp("output", obj[r].clock_pin, GPIO_LOW)
            [] n % 3 = 2 -> PinOp("input", obj[r].data_pin, levels[(n + 1) \div 3])
            [] n % 3 = 0 -> PinOp("output", obj[r].clock_pin, GPIO_HIGH)]
    \o <<PinOp("output", obj[r].cs_pin, GPIO_HIGH)>>

\* get, lines 45-49, on the levels the data line presents
GetWhole(r) ==
    LET frame == ReadLoop(0, line, 1) IN
    /\ obj[r].state = "idle"
    /\ trace' = ReadTrace(r, line)
    /\ gpio' = GPIO_output(GPIO_output(gpio, obj[r].clock_pin, GPIO_HIGH),
                           obj[r].cs_pin, GPIO_HIGH)
    /\ obj' = [obj EXCEPT ![r] = checkErrors([obj[r] EXCEPT !.data = frame], frame)]
    /\ Whole(r, "get",
             IF HasConverter(obj[r].units)
             THEN Returned(Convert(obj[r].units, data_to_tc_temperature(frame)))
             ELSE Raised("AttributeError"))
    /\ line' = <<>>
    /\ UNCHANGED <<i, bytesin, input>>

\* __init__ with power_pin left at its default 0: the instance it leaves
Constructed(r, u) ==
    [state |-> "idle", cs_pin |-> cs_pins[r], clock_pin |-> clock_pin,
     data_pin |-> data_pin, units |-> u, power_pin |-> 0,
     data |-> None, noConnection |-> FALSE, shortToGround |-> FALSE,
     shortToVCC |-> FALSE, unknownError |-> FALSE]

\* ... the pin operations it makes, lines 37-43
InitTrace(r) ==
    <<PinOp("setup", cs_pins[r], GPIO_OUT), PinOp("setup", clock_pin, GPIO_OUT),
      PinOp("setup", data_pin, GPIO_IN), PinOp("output", cs_pins[r], GPIO_HIGH)>>

\* ... and the pins it leaves
InitGpio(r) ==
    [p \in Pins |->
       CASE p = cs_pins[r] -> [mode |-> GPIO_OUT, level |-> GPIO_HIGH]
         [] p = clock_pin -> [mode |-> GPIO_OUT, level |-> None]
         [] p = data_pin -> [mode |-> GPIO_IN, level |-> None]
         [] OTHER -> [mode |-> None, level |-> None]]

\* One instance just constructed, the frame the caller will apply a method
\* to, and the data line presenting that frame.
FrameInit ==
    /\ input \in AllFrames
    /\ \E u \in {"c", "k", "f"} : obj = [r \in Instances |-> Constructed(r, u)]
    /\ gpio = InitGpio(1)
    /\ pc = "idle"
    /\ self = 1
    /\ call = "__init__"
    /\ i = 0
    /\ bytesin = 0
    /\ line = LineOf(input)
    /\ trace = InitTrace(1)
    /\ old = Snapshot(Unborn)
    /\ result = Returned(None)

\* One method is applied to the frame
FrameCheckErrors == call = "__init__" /\ CheckErrors(1, input)
FrameDataToTcTemperature == call = "__init__" /\ DataToTcTemperature(1, input)
FrameGet == call = "__init__" /\ GetWhole(1)

FrameNext ==
    \/ FrameCheckErrors
    \/ FrameDataToTcTemperature
    \/ FrameGet

FrameSpec == FrameInit /\ [][FrameNext]_vars

---------------------------------------------------------------------------
(* Several instances on one clock and one data-in, as in lines 121-141: one
   instance per chip-select pin of cs_pins, made and called by one thread *)

NumReaders == 2

Readers == 1..NumReaders

BusInit ==
    /\ obj = [r \in Readers |-> Unborn]
    /\ gpio = [p \in Pins |-> [mode |-> None, level |-> None]]
    /\ pc = "idle"
    /\ self = None
    /\ call = ""
    /\ i = 0
    /\ bytesin = 0
    /\ line = <<>>
    /\ trace = <<>>
    /\ old = Snapshot(Unborn)
    /\ result = NoResult
    /\ input = None

\* lines 126-127: thermocouples.append(MAX6675(cs_pin, clock_pin, data_pin, units))
BusConstruct(r) == Construct(r, "c", 0)

\* The caller reads while the clock it shares is still an output: the
\* cleanups of lines 139-141 come after the last get
BusRead(r) == gpio[clock_pin].mode = GPIO_OUT /\ ReadCall(r)

\* line 134: thermocouple.get()
BusGet(r) == gpio[clock_pin].mode = GPIO_OUT /\ GetCall(r)

\* The frames the devices of the bus present: a line stuck low, a reading
\* with the fault bit, a line stuck high
BusFrames == {0, 1156, 65535}

\* lines 53-55, with the selected device presenting one of BusFrames
BusReadSelect == ReadSelect /\ \E f \in BusFrames : line' = LineOf(f)

\* line 141: thermocouple.cleanup()
BusCleanup(r) == CleanupCall(r)

BusNext ==
    \/ \E r \in Readers : BusConstruct(r)
    \/ InitSetupCs
    \/ InitSetupClock
    \/ InitSetupData
    \/ InitCsHigh
    \/ \E r \in Readers : BusRead(r)
    \/ BusReadSelect
    \/ ReadClockLow
    \/ ReadSample
    \/ ReadClockHigh
    \/ ReadUnselect
    \/ ReadSave
    \/ \E r \in Readers : BusGet(r)
    \/ GetCheckErrors
    \/ GetReturn
    \/ \E r \in Readers : BusCleanup(r)
    \/ CleanupCs
    \/ CleanupClock

BusSpec == BusInit /\ [][BusNext]_vars

---------------------------------------------------------------------------
(* What the properties are stated with *)

\* Bit 2 of a frame, by arithmetic
Bit2(f) == (f \div 4) % 2

\* The temperature count of a frame, by arithmetic
Count13(f) == f \div 8

\* The levels read from the data line in a trace, in order
Samples(t) ==
    LET ins == SelectSeq(t, LAMBDA e : e.op = "input")
    IN  [k \in 1..Len(ins) |-> ins[k].val]

\* The levels written to a pin in a trace, in order
Writes(t, pin) ==
    LET outs == SelectSeq(t, LAMBDA e : e.op = "output" /\ e.pin = pin)
    IN  [k \in 1..Len(outs) |-> outs[k].val]

\* sum of levels[k] * 2^(n-k): the first level is the most significant bit
RECURSIVE WeightedSum(_)
WeightedSum(levels) ==
    IF Len(levels) = 0 THEN 0
    ELSE 2 * WeightedSum(SubSeq(levels, 1, Len(levels) - 1)) + levels[Len(levels)]

\* The temperature get returns for a count, in hundredths of the unit
Expected(u, n) ==
    CASE u = "c" -> 25 * n
      [] u = "k" -> 25 * n + 27315
      [] u = "f" -> 45 * n + 3200

Finished(method) == pc = "idle" /\ call = method

\* The body of read has run to its end, in read or inside get
ReadFinished ==
    \/ pc \in {"get_check", "get_return"}
    \/ pc = "idle" /\ call \in {"read", "get"} /\ result.kind # "none"

InRead ==
    pc \in {"read_select", "read_clock_low", "read_sample", "read_clock_high",
            "read_unselect", "read_save"}

\* The whole-method get does what the pin-by-pin get does (under Spec)
StepwiseGetIsWholeGet ==
    Finished("get") =>
        /\ trace = ReadTrace(self, Samples(trace))
        /\ obj[self] = checkErrors([obj[self] EXCEPT !.data = ReadLoop(0, Samples(trace), 1)],
                                   ReadLoop(0, Samples(trace), 1))
        /\ gpio[obj[self].cs_pin].level = GPIO_HIGH
        /\ gpio[obj[self].clock_pin].level = GPIO_HIGH

\* FrameInit is the state the constructor leaves (under Spec)
StepwiseInitIsFrameInit ==
    Finished("__init__") /\ obj[self].power_pin = 0 =>
        /\ obj[self] = Constructed(self, obj[self].units)
        /\ gpio = InitGpio(self)
        /\ trace = InitTrace(self)
        /\ result = Returned(None)
        /\ old = Snapshot(Unborn)
        /\ i = 0 /\ bytesin = 0 /\ line = <<>>

---------------------------------------------------------------------------
(* C1 *)

\* C1: whenever the frame captured by a get() has bit 2 set, that get()
\* signals an error to its caller instead of returning a temperature, for
\* every 16-bit frame and each of the units c, k, f.
C1_GetSignalsFault ==
    Finished("get") /\ obj[self].units \in {"c", "k", "f"} /\ Bit2(obj[self].data) = 1
        => result.kind = "raise"

---------------------------------------------------------------------------
(* C2 *)

ReadShape ==
    ReadFinished =>
        /\ Len(trace) = 2 + 3 * FrameBits
        /\ trace[1] = PinOp("output", obj[self].cs_pin, GPIO_LOW)
        /\ trace[Len(trace)] = PinOp("output", obj[self].cs_pin, GPIO_HIGH)
        /\ Writes(trace, obj[self].cs_pin) = <<GPIO_LOW, GPIO_HIGH>>
        /\ Writes(trace, obj[self].clock_pin)
             = [k \in 1..(2 * FrameBits) |-> IF k % 2 = 1 THEN GPIO_LOW ELSE GPIO_HIGH]
        /\ Len(Samples(trace)) = FrameBits
        /\ \A k \in 1..Len(trace) : trace[k].op = "input" => trace[k].pin = obj[self].data_pin

\* C2: every read() terminates, and from its start to its end it writes
\* chip-select low exactly once (its first pin operation) and high exactly
\* once (its last), writes the clock low then high exactly 16 times and
\* samples data-in exactly 16 times, whatever levels the line returns.
C2_ReadTerminatesInShape == (InRead ~> ReadFinished) /\ []ReadShape

\* A read that sampled sixteen high levels (a floating line) has returned
C2_Witness ==
    /\ Finished("read") /\ result.kind = "return"
    /\ Samples(trace) = [k \in 1..FrameBits |-> GPIO_HIGH]

---------------------------------------------------------------------------
(* C3 *)

\* C3: for every sequence b0..b15 of sampled levels, the frame a read()
\* stores is the sum of b_i * 2^(15-i): the first sample is bit 15 and the
\* last is bit 0, so the frame is in 0..65535 and is a function of this
\* read's samples alone, whatever frame was stored before.  The first
\* conjunct is the pin-by-pin read on the frames the line presents; the
\* second is its loop on all 2^16 sequences, evaluated in the initial state.
C3_FrameIsSamplesMsbFirst ==
    /\ ReadFinished =>
          /\ obj[self].data = WeightedSum(Samples(trace))
          /\ obj[self].data \in 0..65535
    /\ pc = "idle" /\ call = "" =>
          \A levels \in [1..FrameBits -> {GPIO_LOW, GPIO_HIGH}] :
              ReadLoop(0, levels, 1) = WeightedSum(levels)

\* A read has replaced a different stored frame by 0x0480
C3_Witness ==
    /\ Finished("read") /\ result.kind = "return"
    /\ old.data # None /\ old.data # obj[self].data
    /\ obj[self].data = 1152

---------------------------------------------------------------------------
(* C4 *)

\* C4: get() performs read(), then checkErrors(), then the decoding and the
\* unit conversion, all on the frame this call captured: the value it
\* returns and the noConnection flag it leaves are functions of the 16
\* levels sampled during this call, never of an earlier stored frame.
C4_GetUsesFreshFrame ==
    LET frame == WeightedSum(Samples(trace)) IN
    /\ call = "get" /\ InRead =>
          obj[self].data = old.data /\ obj[self].noConnection = old.noConnection
    /\ pc = "get_check" =>
          obj[self].data = frame /\ obj[self].noConnection = old.noConnection
    /\ pc = "get_return" =>
          /\ obj[self].data = frame
          /\ obj[self].noConnection = (Bit2(frame) = 1)
          /\ result.kind = "none"
    /\ Finished("get") =>
          /\ obj[self].data = frame
          /\ obj[self].noConnection = (Bit2(frame) = 1)
          /\ IF obj[self].units \in {"c", "k", "f"}
             THEN result = Returned(Expected(obj[self].units, Count13(frame)))
             ELSE result.kind = "raise"

\* A get has returned after an earlier call stored another frame and left
\* the flag the other way
C4_Witness ==
    /\ Finished("get") /\ result.kind = "return"
    /\ old.data # None /\ old.data # obj[self].data
    /\ old.noConnection # obj[self].noConnection

---------------------------------------------------------------------------
(* C5 *)

---------------------------------------------------------------------------
(* C6 *)

\* C6: noConnection is recomputed, not latched: after any sequence of
\* operations a checkErrors() call, made by the caller or inside get(), on a
\* frame whose bit 2 is clear leaves the flag false even if it was true, and
\* on a frame whose bit 2 is set leaves it true even if it was false.
C6_FlagRecomputed ==
    /\ Finished("checkErrors") /\ result.kind = "return" =>
          obj[self].noConnection = (Bit2(Arg(self, input)) = 1)
    /\ pc = "get_return" \/ Finished("get") =>
          obj[self].noConnection = (Bit2(obj[self].data) = 1)

\* A checkErrors called by the user has cleared a flag that was set
C6_Witness ==
    /\ Finished("checkErrors") /\ result.kind = "return"
    /\ old.noConnection /\ ~obj[self].noConnection

---------------------------------------------------------------------------
(* C7 *)

\* C7: for every 16-bit frame f, data_to_tc_temperature(f) is
\* ((f >> 3) & 0x1FFF) * 0.25: in quarter degrees it is f div 8, and the
\* three low-order bits of f have no influence on it.
C7_DecodeIsShiftThenScale ==
    Finished("data_to_tc_temperature") =>
        /\ result = Returned(((input \div 8) % 8192) * 25)
        /\ result.val = 25 * (input \div 8)
        /\ \A low \in 0..7 : result.val = data_to_tc_temperature(8 * (input \div 8) + low)

\* 0x0487 (count 144, the three low bits set) has been decoded to 36.0
C7_Witness ==
    Finished("data_to_tc_temperature") /\ input = 1159 /\ result = Returned(3600)

---------------------------------------------------------------------------
(* C8 *)

\* C8: for every frame with bit 2 clear and temperature count n = frame >> 3,
\* get() returns n*0.25 in Celsius, n*0.25 + 273.15 in Kelvin and
\* n*0.25*9/5 + 32 in Fahrenheit (25n, 25n + 27315, 45n + 3200 hundredths);
\* frame 0x0480 gives 36.0, 309.15 and 96.8.
C8_GetConverts ==
    Finished("get") /\ Bit2(obj[self].data) = 0 =>
        /\ obj[self].data = input
        /\ result = Returned(Expected(obj[self].units, Count13(input)))
        /\ input = 1152 =>
              result.val = CASE obj[self].units = "c" -> 3600
                             [] obj[self].units = "k" -> 30915
                             [] obj[self].units = "f" -> 9680

\* get() has returned 96.8 for frame 0x0480 in Fahrenheit
C8_Witness ==
    /\ Finished("get") /\ obj[self].data = 1152 /\ obj[self].units = "f"
    /\ result = Returned(9680)

---------------------------------------------------------------------------
(* C9 *)

\* C9: the constructor configures chip-select and clock as outputs and
\* data-in as input and then drives chip-select high, reading no pin: when
\* it returns chip-select is high, and no data-in sample and no
\* chip-select-low write came before that chip-select-high write.
C9_ConstructDeselects ==
    /\ call = "__init__" =>
          \A k \in 1..Len(trace) :
              /\ trace[k].op # "input"
              /\ trace[k] # PinOp("output", obj[self].cs_pin, GPIO_LOW)
    /\ Finished("__init__") =>
          /\ Len(trace) >= 4
          /\ SubSeq(trace, Len(trace) - 3, Len(trace))
               = <<PinOp("setup", obj[self].cs_pin, GPIO_OUT),
                   PinOp("setup", obj[self].clock_pin, GPIO_OUT),
                   PinOp("setup", obj[self].data_pin, GPIO_IN),
                   PinOp("output", obj[self].cs_pin, GPIO_HIGH)>>
          /\ Writes(trace, obj[self].cs_pin) = <<GPIO_HIGH>>
          /\ gpio[obj[self].cs_pin] = [mode |-> GPIO_OUT, level |-> GPIO_HIGH]
          /\ gpio[obj[self].clock_pin].mode = GPIO_OUT
          /\ gpio[obj[self].data_pin].mode = GPIO_IN

\* A constructor without a power pin has returned
C9_Witness ==
    /\ Finished("__init__") /\ result.kind = "return"
    /\ obj[self].power_pin = 0
    /\ gpio[obj[self].cs_pin].level = GPIO_HIGH

---------------------------------------------------------------------------
(* C10 *)

CleanupShape ==
    Finished("cleanup") =>
        /\ trace = <<PinOp("setup", obj[self].cs_pin, GPIO_IN),
                     PinOp("setup", obj[self].clock_pin, GPIO_IN)>>
        /\ obj[self].data = old.data
        /\ obj[self].noConnection = old.noConnection

CleanupFrame ==
    call' = "cleanup" =>
        /\ \A p \in Pins : gpio'[p].level = gpio[p].level
        /\ \A p \in Pins \ {obj'[self'].cs_pin, obj'[self'].clock_pin} : gpio'[p] = gpio[p]
        /\ obj'[self'].data = obj[self'].data
        /\ obj'[self'].noConnection = obj[self'].noConnection

\* C10: cleanup() performs exactly two pin operations, setting chip-select
\* and clock to input; it performs none on data-in or on the power pin,
\* writes no level, and leaves the stored frame and noConnection unchanged.
C10_CleanupReleasesCsAndClock == []CleanupShape /\ [][CleanupFrame]_vars

\* cleanup has returned on an instance with a power pin, a stored frame and
\* the flag set
C10_Witness ==
    /\ Finished("cleanup") /\ result.kind = "return"
    /\ obj[self].power_pin > 0
    /\ obj[self].data # None /\ obj[self].noConnection

---------------------------------------------------------------------------
(* C11 *)

\* The pins of the bus of the instance a call is on
BusPins == {obj[self].cs_pin, obj[self].clock_pin, obj[self].data_pin}

\* The constructor has powered the device before it touched the bus
PoweredFirst ==
    /\ call = "__init__" /\ (\E k \in 1..Len(trace) : trace[k].pin \in BusPins) =>
          /\ Len(trace) >= 3
          /\ trace[1] = PinOp("setup", obj[self].power_pin, GPIO_OUT)
          /\ trace[2] = PinOp("output", obj[self].power_pin, GPIO_HIGH)
          /\ \A k \in 3..Len(trace) : trace[k].pin \in BusPins
    /\ obj[self].state \in {"idle", "released"} =>
          gpio[obj[self].power_pin] = [mode |-> GPIO_OUT, level |-> GPIO_HIGH]
    /\ call # "__init__" => \A k \in 1..Len(trace) : trace[k].pin \in BusPins

\* No pin but those of the bus is ever configured or written
NoPowerPinTouched ==
    /\ \A k \in 1..Len(trace) : trace[k].pin \in BusPins
    /\ \A p \in Pins \ BusPins : gpio[p] = [mode |-> None, level |-> None]

\* C11 as stated: a power_pin that is not 0 is configured as an output and
\* driven high by the constructor before chip-select, clock or data-in are
\* configured, hence before any read(); with power_pin 0 no operation of the
\* instance's lifetime configures or writes a power pin.
C11_NonZeroPowerPinPowered ==
    self # None =>
        /\ obj[self].power_pin # 0 => PoweredFirst
        /\ obj[self].power_pin = 0 => NoPowerPinTouched

\* C11 amended: the same of a power_pin greater than 0; with a power_pin of 0
\* or less no operation of the instance's lifetime configures or writes any
\* pin but chip-select, clock and data-in.
C11_PositivePowerPinPowered ==
    self # None =>
        /\ obj[self].power_pin > 0 => PoweredFirst
        /\ ~(obj[self].power_pin > 0) => NoPowerPinTouched

\* A get has returned on an instance constructed with power pin 27, which
\* is an output at high
C11_Witness ==
    /\ Finished("get") /\ result.kind = "return"
    /\ obj[self].power_pin = 27
    /\ gpio[27] = [mode |-> GPIO_OUT, level |-> GPIO_HIGH]

---------------------------------------------------------------------------
(* C12 *)

\* The instances whose chip-select line is at low, or is an output no level
\* was written to yet (lines 37-43), which may be at low
Selected == {r \in DOMAIN obj : /\ obj[r].state # "uninitialized"
                                 /\ gpio[obj[r].cs_pin].mode = GPIO_OUT
                                 /\ gpio[obj[r].cs_pin].level # GPIO_HIGH}

\* The instances that have been constructed
Made == {r \in DOMAIN obj : obj[r].state # "uninitialized"}

\* The instances share clock and data-in and have chip-selects of their own
SharedBus ==
    \A r, q \in Made :
        /\ obj[r].clock_pin = obj[q].clock_pin
        /\ obj[r].data_pin = obj[q].data_pin
        /\ r # q => obj[r].cs_pin # obj[q].cs_pin

AtMostOneSelected == SharedBus => Cardinality(Selected) <= 1

\* A step that samples data-in is made with the reading instance selected
\* and every other instance unselected
SampledWhileAloneSelected ==
    pc = "read_sample" /\ pc' = "read_clock_high" /\ Len(trace') = Len(trace) + 1
    /\ trace'[Len(trace')].op = "input" =>
        /\ gpio[obj[self].cs_pin].level = GPIO_LOW
        /\ \A q \in Made \ {self} : gpio[obj[q].cs_pin].level = GPIO_HIGH
        /\ UNCHANGED gpio

\* C12: with instances on one clock and one data-in and chip-selects of their
\* own, called one call at a time, at most one chip-select line is low at any
\* moment; every sample of a read is taken with the reader's chip-select low
\* and every other reader's chip-select high, and the 16 samples are the bits
\* of the frame the read stores.
C12_OneSelectedAtATime ==
    /\ []AtMostOneSelected
    /\ [][SampledWhileAloneSelected]_vars
    /\ [](ReadFinished => /\ Len(Samples(trace)) = FrameBits
                          /\ obj[self].data = WeightedSum(Samples(trace)))

\* Reader 2 has finished a read after reader 1 stored a frame, and the two
\* stored frames differ
C12_Witness ==
    /\ Made = Readers /\ Cardinality(Made) >= 2
    /\ Finished("read") /\ self = 2
    /\ obj[1].data # None /\ obj[2].data # None /\ obj[1].data # obj[2].data
    /\ SharedBus

---------------------------------------------------------------------------
(* C13 *)

\* C13: the short-to-ground, short-to-VCC and unknown-error flags of every
\* instance are false in every reachable state, whatever calls were made on
\* whatever frames.
C13_OtherFlagsNeverSet ==
    \A r \in DOMAIN obj :
        ~obj[r].shortToGround /\ ~obj[r].shortToVCC /\ ~obj[r].unknownError

\* A get has stored the frame of a line stuck high and set noConnection,
\* with the three other flags false
C13_Witness ==
    /\ Finished("get")
    /\ obj[self].data = 65535 /\ obj[self].noConnection
    /\ ~obj[self].shortToGround /\ ~obj[self].shortToVCC /\ ~obj[self].unknownError

---------------------------------------------------------------------------
(* C14 *)

\* The count and the Celsius temperature (in hundredths) of the frame a get
\* has stored lie within the bounds, and so does the temperature get returns
DecodedWithin(maxCount, maxCelsius) ==
    /\ Finished("get") =>
          /\ obj[self].data = input
          /\ shr(obj[self].data, TcShift) \in 0..maxCount
          /\ data_to_tc_temperature(obj[self].data) \in 0..maxCelsius
          /\ obj[self].units = "c" => result.val \in 0..maxCelsius
    /\ Finished("data_to_tc_temperature") => result.val \in 0..maxCelsius

\* C14 as stated: for every frame read can store, the frame shifted right by
\* 3 is a count in 0..4095 and the decoded temperature lies in 0..1023.75
\* degrees Celsius.
C14_CountIs12Bit == DecodedWithin(4095, 102375)

\* C14 amended: for every frame read can store, the frame shifted right by 3
\* is a count in 0..8191 (13 bits: bit 15 is shifted into the count, not
\* masked) and the decoded temperature lies in 0..2047.75 degrees Celsius.
C14_CountIs13Bit == DecodedWithin(8191, 204775)

\* get has stored the frame of a line stuck high and returned 2047.75
C14_Witness ==
    /\ Finished("get") /\ obj[self].data = 65535 /\ obj[self].units = "c"
    /\ result = Returned(204775)

---------------------------------------------------------------------------
(* C15 *)

\* The step reads a pin
IsSample ==
    /\ Len(trace') = Len(trace) + 1
    /\ trace'[Len(trace')].op = "input"

\* In the pin operations of a call, every sample of data-in comes right
\* after a write of low to the clock and, once the next operation is made,
\* right before a write of high to it; the k-th sample is the third
\* operation of the k-th turn
SampleBetweenEdges ==
    \A n \in 1..Len(trace) : trace[n].op = "input" =>
        /\ trace[n].pin = obj[self].data_pin
        /\ n > 2 /\ n % 3 = 0
        /\ trace[1] = PinOp("output", obj[self].cs_pin, GPIO_LOW)
        /\ trace[n - 1] = PinOp("output", obj[self].clock_pin, GPIO_LOW)
        /\ n < Len(trace) => trace[n + 1] = PinOp("output", obj[self].clock_pin, GPIO_HIGH)
        /\ \A m \in 2..n : trace[m].pin # obj[self].cs_pin

\* A sample is taken with chip-select at low and the clock at low, and
\* changes no pin
SampledAtLow ==
    IsSample =>
        /\ gpio[obj[self].cs_pin].level = GPIO_LOW
        /\ gpio[obj[self].clock_pin].level = GPIO_LOW
        /\ UNCHANGED gpio

\* C15: in each of the 16 turns of read the sample of data-in is taken after
\* the turn's write of low to the clock and before its write of high, so
\* every sample is taken with chip-select low and the clock low, none with
\* chip-select high or the clock high.
C15_SampledBetweenClockEdges ==
    /\ []SampleBetweenEdges
    /\ [][SampledAtLow]_vars
    /\ [](ReadFinished => Len(Samples(trace)) = FrameBits)

\* The 16th sample has just been taken: chip-select and clock are at low
C15_Witness ==
    /\ pc = "read_clock_high" /\ i = FrameBits - 1
    /\ Len(Samples(trace)) = FrameBits
    /\ trace[Len(trace)].op = "input"
    /\ gpio[obj[self].cs_pin].level = GPIO_LOW
    /\ gpio[obj[self].clock_pin].level = GPIO_LOW

---------------------------------------------------------------------------
(* C16 *)

\* Between the write of low to chip-select (line 55) and the write of high
\* to it (line 64)
StrictlyInsideRead ==
    pc \in {"read_clock_low", "read_sample", "read_clock_high", "read_unselect"}

\* C16: from the end of the constructor on, whenever no read is in progress
\* the last level written to chip-select is high; once a read has completed
\* the last level written to the clock is high whenever no read is in
\* progress; chip-select is at low only strictly inside a read.
C16_BusIdlesHigh ==
    \A r \in DOMAIN obj :
        /\ obj[r].state \in {"idle", "released"} /\ ~InRead =>
              gpio[obj[r].cs_pin].level = GPIO_HIGH
        /\ obj[r].state \in {"idle", "released"} /\ ~InRead /\ obj[r].data # None =>
              gpio[obj[r].clock_pin].level = GPIO_HIGH
        /\ obj[r].state # "uninitialized" /\ gpio[obj[r].cs_pin].level = GPIO_LOW =>
              StrictlyInsideRead /\ self = r

\* A method that touches no pin has returned after a completed read, with
\* chip-select and clock at high
C16_Witness ==
    /\ Finished("checkErrors") /\ result.kind = "return"
    /\ obj[self].state = "idle" /\ obj[self].data # None
    /\ gpio[obj[self].cs_pin] = [mode |-> GPIO_OUT, level |-> GPIO_HIGH]
    /\ gpio[obj[self].clock_pin] = [mode |-> GPIO_OUT, level |-> GPIO_HIGH]

---------------------------------------------------------------------------
(* C17 *)

\* The noConnection flag of the instance agrees with bit 2 of its frame
FlagIsBit2 == obj[self].noConnection = (Bit2(obj[self].data) = 1)

\* A step of the body of read changes no attribute but data, and data at
\* line 66 only
ReadWritesDataOnly ==
    InRead \/ InRead' =>
        /\ obj' = [obj EXCEPT ![self'].data = obj'[self'].data]
        /\ obj'[self'].data # obj[self'].data => pc = "read_save"

\* C17: read changes the stored frame (and pin levels) and nothing else of
\* the instance, the noConnection flag in particular, so that after a bare
\* read the flag can disagree with bit 2 of the stored frame; the flag is
\* sure to equal bit 2 of the stored frame on the return of checkErrors
\* without argument and of get, and not on the return of read.
C17_ReadLeavesFlag ==
    /\ [][ReadWritesDataOnly]_vars
    /\ [](Finished("read") => obj[self].noConnection = old.noConnection)
    /\ [](Finished("get") => FlagIsBit2)
    /\ [](Finished("checkErrors") /\ input = None /\ result.kind = "return" => FlagIsBit2)

\* A bare read has stored a frame with bit 2 set and the flag is as it was
\* before, false
C17_Witness ==
    /\ Finished("read")
    /\ Bit2(obj[self].data) = 1
    /\ ~obj[self].noConnection /\ ~old.noConnection
    /\ ~FlagIsBit2

---------------------------------------------------------------------------
(* C18 *)

\* C18: the constructor accepts units other than "c", "k", "f" without
\* error; every get on such an instance ends in an error, raised only after
\* the whole bus read and checkErrors were made, so that the failed get has
\* stored the frame it read and set the noConnection flag from it.
C18_BadUnitsFailAfterRead ==
    /\ Finished("__init__") => result = Returned(None)
    /\ call = "get" /\ ~HasConverter(obj[self].units) =>
          /\ result.kind # "return"
          /\ result.kind = "raise" <=> pc = "idle"
    /\ Finished("get") /\ ~HasConverter(obj[self].units) =>
          /\ result = Raised("AttributeError")
          /\ Len(Samples(trace)) = FrameBits
          /\ trace = ReadTrace(self, Samples(trace))
          /\ obj[self].data = WeightedSum(Samples(trace))
          /\ FlagIsBit2

\* A get on an instance with units "x" has failed, and has replaced the
\* stored frame and the flag by those of the frame it read
C18_Witness ==
    /\ Finished("get") /\ obj[self].units = "x"
    /\ result.kind = "raise"
    /\ old.data # None /\ obj[self].data # old.data
    /\ obj[self].noConnection # old.noConnection

====
